---- MODULE Spec2Model ----
(***************************************************************************)
(* The receipt backend: the in-memory store (three arrays of records) and  *)
(* the HTTP route handlers on top of it.  A handler is an async function:  *)
(* it runs synchronously up to its next `await`, so one step of the model  *)
(* is the code of one handler between two await points, and handlers in    *)
(* different slots interleave at those points.                             *)
(***************************************************************************)
EXTENDS Integers, Sequences, FiniteSets, TLC

(* ----------------------------- bounds ---------------------------------- *)
NanoLen == 1          \* length of a generated id string (the library makes 21)
MaxUsers == 1         \* users the store may hold
MaxReceipts == 2      \* receipts the store may hold
MaxItemCreates == 2   \* createReceiptItem calls in one behaviour
MaxBatch == 2         \* longest array body of POST /api/receipts/:receiptId/items
MaxTime == 1          \* last value of the clock read by new Date()

NanoAlphabet == {"1", "a"}   \* characters an id string is drawn from
Slots == {"h1", "h2"}        \* requests that may be in flight together
One == {"h1"}                \* the slot used when requests come one at a time

(* ------------------------ numbers and strings -------------------------- *)
\* JavaScript's NaN: a number that is not === to anything, itself included.
NaN == -1000
\* JSON's null, also the value of a nullable field that is null.
Null == -2000

\* a === b on numbers
StrictEq(a, b) == a # NaN /\ b # NaN /\ a = b

Digits == {"0", "1", "2", "3", "4", "5", "6", "7", "8", "9"}

DigitVal(c) ==
  CASE c = "0" -> 0 [] c = "1" -> 1 [] c = "2" -> 2 [] c = "3" -> 3
    [] c = "4" -> 4 [] c = "5" -> 5 [] c = "6" -> 6 [] c = "7" -> 7
    [] c = "8" -> 8 [] c = "9" -> 9

DigitChar(d) ==
  CASE d = 0 -> "0" [] d = 1 -> "1" [] d = 2 -> "2" [] d = 3 -> "3"
    [] d = 4 -> "4" [] d = 5 -> "5" [] d = 6 -> "6" [] d = 7 -> "7"
    [] d = 8 -> "8" [] d = 9 -> "9"

\* The value of the longest prefix of decimal digits of s, given the value
\* acc of the digits read so far.
RECURSIVE DigitPrefix(_, _)
DigitPrefix(s, acc) ==
  IF s = <<>> \/ Head(s) \notin Digits THEN acc
  ELSE DigitPrefix(Tail(s), 10 * acc + DigitVal(Head(s)))

\* parseInt(s) in radix 10: an optional sign, then the longest digit prefix;
\* NaN when there is no digit.
ParseInt(s) ==
  LET signed == s # <<>> /\ Head(s) \in {"-", "+"}
      rest == IF signed THEN Tail(s) ELSE s
  IN IF rest = <<>> \/ Head(rest) \notin Digits THEN NaN
     ELSE IF signed /\ Head(s) = "-" THEN 0 - DigitPrefix(rest, 0)
     ELSE DigitPrefix(rest, 0)

\* The decimal digits of n >= 0.
RECURSIVE Decimal(_)
Decimal(n) ==
  IF n < 10 THEN <<DigitChar(n)>>
  ELSE Append(Decimal(n \div 10), DigitChar(n % 10))

\* res.json writes a number that is NaN as null.
JsonNumber(n) == IF n = NaN THEN Null ELSE n

\* The path segment a client builds from the id of a record it received.
ToPath(n) ==
  IF n = Null \/ n = NaN THEN <<"n", "u", "l", "l">>
  ELSE IF n < 0 THEN <<"-">> \o Decimal(0 - n)
  ELSE Decimal(n)

\* Sequences over S of length exactly n.
RECURSIVE SeqsOfLen(_, _)
SeqsOfLen(S, n) ==
  IF n = 0 THEN {<<>>}
  ELSE {Append(q, x) : q \in SeqsOfLen(S, n - 1), x \in S}

\* Sequences over S of length at most n.
SeqsUpTo(S, n) == UNION {SeqsOfLen(S, k) : k \in 0..n}

\* The strings nanoid() may return.
NanoIds == SeqsOfLen(NanoAlphabet, NanoLen)

\* The path parameters a client may send: the ids the generator can produce,
\* as a client reads them in a response ("null" for an id that is no number).
PathParams == {ToPath(JsonNumber(ParseInt(n))) : n \in NanoIds}

(* ------------------------- schemas and bodies -------------------------- *)
\* A request body is a record of the values of its keys (val) and of what
\* kind of JSON/JavaScript value each is (typ): "number", "nan", "string",
\* "email" (a string that is an e-mail address), "date", "null", "undefined"
\* (the key is absent).

TypeOfNumber(n) == IF n = NaN THEN "nan" ELSE IF n = Null THEN "null" ELSE "number"

\* z.object shapes: for each key the kinds of value its validator accepts
\* (z.number() rejects NaN; z.string() accepts any string).  Ids are numbers,
\* as the store makes and compares them.
UserSchema ==
  [id |-> {"number"}, name |-> {"string", "email"}, email |-> {"email"},
   createdAt |-> {"date"}, updatedAt |-> {"date"}]

ReceiptItemSchema ==
  [id |-> {"number"}, receiptId |-> {"number"}, name |-> {"string", "email"},
   price |-> {"number"}, quantity |-> {"number"},
   createdAt |-> {"date"}, updatedAt |-> {"date"}]

ReceiptSchema ==
  [id |-> {"number"}, userId |-> {"number", "null"}, storeName |-> {"string", "email"},
   date |-> {"date"}, total |-> {"number"},
   createdAt |-> {"date"}, updatedAt |-> {"date"}]

ServerAssigned == {"id", "createdAt", "updatedAt"}

\* schema.omit({k: true, ...})
Omit(shape, keys) == [f \in (DOMAIN shape) \ keys |-> shape[f]]

\* shape.parse(body) succeeds when every key of the shape holds a value its
\* validator accepts (a key the body lacks has typ "undefined")
Valid(body, shape) ==
  \A f \in DOMAIN shape :
    /\ f \in DOMAIN body.typ
    /\ body.typ[f] \in shape[f]

\* and then returns the body's values of the keys of the shape: keys the
\* shape does not know are stripped.
Parsed(body, shape) == [f \in DOMAIN shape |-> body.val[f]]

\* A faulty variant, { receiptId, ...item }: a receiptId of the body wins
WithReceiptIdFromBody(body, receiptId) ==
  IF body.typ.receiptId = "undefined"
  THEN [val |-> [body.val EXCEPT !.receiptId = receiptId],
        typ |-> [body.typ EXCEPT !.receiptId = TypeOfNumber(receiptId)]]
  ELSE body

\* {...item, receiptId}
WithReceiptId(body, receiptId) ==
  [val |-> [body.val EXCEPT !.receiptId = receiptId],
   typ |-> [body.typ EXCEPT !.receiptId = TypeOfNumber(receiptId)]]

UserBodies ==
  { [val |-> [name |-> "A", email |-> "a@x"], typ |-> [name |-> "string", email |-> "email"]],
    [val |-> [name |-> "A", email |-> "not-an-email"], typ |-> [name |-> "string", email |-> "string"]] }

\* A valid receipt without a user, and one that lacks its total.
ReceiptBodies ==
  { [val |-> [userId |-> Null, storeName |-> "S", date |-> 0, total |-> 5],
     typ |-> [userId |-> "null", storeName |-> "string", date |-> "date", total |-> "number"]],
    [val |-> [userId |-> Null, storeName |-> "S", date |-> 0, total |-> 0],
     typ |-> [userId |-> "null", storeName |-> "string", date |-> "date", total |-> "undefined"]] }

\* A valid item that names receipt 2 and carries an id of its own, and an
\* item whose price is a string.
ItemBodies ==
  { [val |-> [id |-> 7, receiptId |-> 2, name |-> "N", price |-> 3, quantity |-> 1],
     typ |-> [id |-> "number", receiptId |-> "number", name |-> "string", price |-> "number", quantity |-> "number"]],
    [val |-> [id |-> 0, receiptId |-> 2, name |-> "N", price |-> 0, quantity |-> 1],
     typ |-> [id |-> "undefined", receiptId |-> "number", name |-> "string", price |-> "string", quantity |-> "number"]] }

\* The bodies of POST /api/receipts/:receiptId/items: one item, or an array.
BatchBodies ==
  {[isArray |-> FALSE, elems |-> <<b>>] : b \in ItemBodies}
    \cup {[isArray |-> TRUE, elems |-> q] : q \in SeqsUpTo(ItemBodies, MaxBatch)}

(* ------------------------------ the store ------------------------------ *)
\* { ...data, id: parseInt(nanoid()), createdAt: new Date(), updatedAt: new Date() }
NewRecord(data, nano, t) ==
  [f \in (DOMAIN data) \cup ServerAssigned |->
     CASE f = "id" -> ParseInt(nano)
       [] f \in {"createdAt", "updatedAt"} -> t
       [] OTHER -> data[f]]

\* A faulty variant, array[array.length - 1] = record: the last record is overwritten
PushOverLast(array, record) ==
  IF array = <<>> THEN <<record>> ELSE [array EXCEPT ![Len(array)] = record]

\* array.push(record)
Push(array, record) == Append(array, record)

\* array.findIndex(x => x.id === id), 0 for the code's -1
RECURSIVE FindIndexFrom(_, _, _)
FindIndexFrom(array, id, i) ==
  IF i > Len(array) THEN 0
  ELSE IF StrictEq(array[i].id, id) THEN i
  ELSE FindIndexFrom(array, id, i + 1)

FindIndex(array, id) == FindIndexFrom(array, id, 1)

\* array.find(x => x.id === id): <<x>> for the first match, <<>> for undefined
Find(array, id) ==
  LET i == FindIndex(array, id) IN IF i = 0 THEN <<>> ELSE <<array[i]>>

getUserById(users, id) == Find(users, id)

\* A faulty variant, find(receipt => receipt.id = id): the first receipt, whatever its id
getReceiptByIdAssigned(receipts, id) ==
  IF receipts = <<>> THEN <<>> ELSE <<receipts[1]>>

getReceiptById(receipts, id) == Find(receipts, id)

\* array.filter(item => item.receiptId === receiptId)
RECURSIVE getReceiptItemsByReceiptId(_, _)
getReceiptItemsByReceiptId(items, receiptId) ==
  IF items = <<>> THEN <<>>
  ELSE LET rest == getReceiptItemsByReceiptId(Tail(items), receiptId)
       IN IF StrictEq(Head(items).receiptId, receiptId) THEN <<Head(items)>> \o rest
          ELSE rest

\* array.splice(index, 1)
Splice(array, index) ==
  [j \in 1..(Len(array) - 1) |-> IF j < index THEN array[j] ELSE array[j + 1]]

deleteReceiptItem(items, id) ==
  LET index == FindIndex(items, id)
  IN IF index # 0 THEN Splice(items, index) ELSE items

\* res.json(record): the record as the client reads it.  A NaN id is written
\* as null; a Date is written as the text of its instant, which the model
\* keeps as the instant.
Json(record) == [record EXCEPT !.id = JsonNumber(record.id)]

JsonAll(records) == [i \in 1..Len(records) |-> Json(records[i])]

(* ------------------------------- state --------------------------------- *)
VARIABLES
  _users,          \* const _users: User[]
  _receipts,       \* const _receipts: Receipt[]
  _receiptItems,   \* const _receiptItems: ReceiptItem[]
  now,             \* the clock new Date() reads
  handlers,        \* the request handler running in each slot, with its locals
  calls            \* how often each mutating store operation has taken effect

vars == <<_users, _receipts, _receiptItems, now, handlers, calls>>

store == <<_users, _receipts, _receiptItems>>

\* A slot with no request.  kind: the route; pc: "await" while the handler is
\* suspended, "done" once it has responded; path: the route parameter; body:
\* req.body; k: the index of the item the loop is at; awaited: the value of
\* the pending await (<<>> is undefined); createdItems, status and out: the
\* response; from: the response the client took the path from, if any.
Idle ==
  [kind |-> "idle", pc |-> "idle", path |-> <<>>,
   body |-> [isArray |-> FALSE, elems |-> <<>>], k |-> 0, awaited |-> <<>>,
   createdItems |-> <<>>, status |-> 0, out |-> <<>>, from |-> <<>>]

Request(kind, path, elems, isArray) ==
  [Idle EXCEPT !.kind = kind, !.pc = "await", !.path = path,
               !.body = [isArray |-> isArray, elems |-> elems]]

\* res.status(status).json(out), after which the handler returns
Respond(h, status, out) ==
  [h EXCEPT !.pc = "done", !.status = status, !.out = out, !.awaited = <<>>]

Init ==
  /\ _users = <<>>
  /\ _receipts = <<>>
  /\ _receiptItems = <<>>
  /\ now = 0
  /\ handlers = [s \in Slots |-> Idle]
  /\ calls = [createUser |-> 0, createReceipt |-> 0, createReceiptItem |-> 0,
              deleteReceiptItem |-> 0]

Suspended(s, kind) == handlers[s].kind = kind /\ handlers[s].pc = "await"

(* ---------------------------- GET by id -------------------------------- *)
\* app.get("/api/receipts/:id") up to its await
GetReceipt(s, path) ==
  /\ handlers[s].pc = "idle"
  /\ handlers' = [handlers EXCEPT ![s] =
       [Request("getReceipt", path, <<>>, FALSE) EXCEPT
          !.awaited = getReceiptById(_receipts, ParseInt(path))]]
  /\ UNCHANGED <<store, now, calls>>

\* The client that has the 201 of POST /api/receipts follows it with
\* GET /api/receipts/:id, the id read from the record it received.
GetCreatedReceipt(s) ==
  /\ handlers[s].kind = "postReceipt"
  /\ handlers[s].pc = "done"
  /\ handlers[s].status = 201
  /\ LET path == ToPath(handlers[s].out[1].id)
     IN handlers' = [handlers EXCEPT ![s] =
          [Request("getReceipt", path, <<>>, FALSE) EXCEPT
             !.awaited = getReceiptById(_receipts, ParseInt(path)),
             !.from = handlers[s].out]]
  /\ UNCHANGED <<store, now, calls>>

GetReceiptResume(s) ==
  /\ Suspended(s, "getReceipt")
  /\ LET receipt == handlers[s].awaited
     IN handlers' = [handlers EXCEPT ![s] =
          IF receipt = <<>> THEN Respond(@, 404, <<>>)
          ELSE Respond(@, 200, JsonAll(receipt))]
  /\ UNCHANGED <<store, now, calls>>

\* app.get('/api/users/:id')
GetUser(s, path) ==
  /\ handlers[s].pc = "idle"
  /\ handlers' = [handlers EXCEPT ![s] =
       [Request("getUser", path, <<>>, FALSE) EXCEPT
          !.awaited = getUserById(_users, ParseInt(path))]]
  /\ UNCHANGED <<store, now, calls>>

GetUserResume(s) ==
  /\ Suspended(s, "getUser")
  /\ LET user == handlers[s].awaited
     IN handlers' = [handlers EXCEPT ![s] =
          IF user = <<>> THEN Respond(@, 404, <<>>)
          ELSE Respond(@, 200, JsonAll(user))]
  /\ UNCHANGED <<store, now, calls>>

(* ------------------------- single-record POST -------------------------- *)
\* storage.createUser(data)
createUser(data, nano) ==
  /\ _users' = Push(_users, NewRecord(data, nano, now))
  /\ calls' = [calls EXCEPT !.createUser = @ + 1]
  /\ UNCHANGED <<_receipts, _receiptItems>>

\* storage.createReceipt(data)
createReceipt(data, nano) ==
  /\ _receipts' = Push(_receipts, NewRecord(data, nano, now))
  /\ calls' = [calls EXCEPT !.createReceipt = @ + 1]
  /\ UNCHANGED <<_users, _receiptItems>>

\* storage.createReceiptItem(data)
createReceiptItem(data, nano) ==
  /\ _receiptItems' = Push(_receiptItems, NewRecord(data, nano, now))
  /\ calls' = [calls EXCEPT !.createReceiptItem = @ + 1]
  /\ UNCHANGED <<_users, _receipts>>

\* app.post('/api/users') up to its await, or to the 400 of its catch
PostUser(s, body) ==
  /\ handlers[s].pc = "idle"
  /\ LET shape == Omit(UserSchema, ServerAssigned)
         h == Request("postUser", <<>>, <<body>>, FALSE)
     IN IF ~Valid(body, shape)
        THEN /\ handlers' = [handlers EXCEPT ![s] = Respond(h, 400, <<>>)]
             /\ UNCHANGED <<store, calls>>
        ELSE /\ Len(_users) < MaxUsers
             /\ \E nano \in NanoIds :
                  /\ createUser(Parsed(body, shape), nano)
                  /\ handlers' = [handlers EXCEPT ![s] =
                       [h EXCEPT !.awaited = <<NewRecord(Parsed(body, shape), nano, now)>>]]
  /\ UNCHANGED now

PostUserResume(s) ==
  /\ Suspended(s, "postUser")
  /\ handlers' = [handlers EXCEPT ![s] = Respond(@, 200, JsonAll(@.awaited))]
  /\ UNCHANGED <<store, now, calls>>

\* app.post("/api/receipts")
PostReceipt(s, body) ==
  /\ handlers[s].pc = "idle"
  /\ LET shape == Omit(ReceiptSchema, ServerAssigned)
         h == Request("postReceipt", <<>>, <<body>>, FALSE)
     IN IF ~Valid(body, shape)
        THEN /\ handlers' = [handlers EXCEPT ![s] = Respond(h, 400, <<>>)]
             /\ UNCHANGED <<store, calls>>
        ELSE /\ Len(_receipts) < MaxReceipts
             /\ \E nano \in NanoIds :
                  /\ createReceipt(Parsed(body, shape), nano)
                  /\ handlers' = [handlers EXCEPT ![s] =
                       [h EXCEPT !.awaited = <<NewRecord(Parsed(body, shape), nano, now)>>]]
  /\ UNCHANGED now

PostReceiptResume(s) ==
  /\ Suspended(s, "postReceipt")
  /\ handlers' = [handlers EXCEPT ![s] = Respond(@, 201, JsonAll(@.awaited))]
  /\ UNCHANGED <<store, now, calls>>

\* A faulty variant, the item is stored before its body is validated
PostReceiptItemStoredFirst(s, body) ==
  /\ handlers[s].pc = "idle"
  /\ calls.createReceiptItem < MaxItemCreates
  /\ LET shape == Omit(ReceiptItemSchema, ServerAssigned)
         h == Request("postReceiptItem", <<>>, <<body>>, FALSE)
     IN \E nano \in NanoIds :
          /\ createReceiptItem(Parsed(body, shape), nano)
          /\ handlers' = [handlers EXCEPT ![s] =
               IF ~Valid(body, shape) THEN Respond(h, 400, <<>>)
               ELSE [h EXCEPT !.awaited = <<NewRecord(Parsed(body, shape), nano, now)>>]]
  /\ UNCHANGED now

\* app.post('/api/receipt-items')
PostReceiptItem(s, body) ==
  /\ handlers[s].pc = "idle"
  /\ LET shape == Omit(ReceiptItemSchema, ServerAssigned)
         h == Request("postReceiptItem", <<>>, <<body>>, FALSE)
     IN IF ~Valid(body, shape)
        THEN /\ handlers' = [handlers EXCEPT ![s] = Respond(h, 400, <<>>)]
             /\ UNCHANGED <<store, calls>>
        ELSE /\ calls.createReceiptItem < MaxItemCreates
             /\ \E nano \in NanoIds :
                  /\ createReceiptItem(Parsed(body, shape), nano)
                  /\ handlers' = [handlers EXCEPT ![s] =
                       [h EXCEPT !.awaited = <<NewRecord(Parsed(body, shape), nano, now)>>]]
  /\ UNCHANGED now

PostReceiptItemResume(s) ==
  /\ Suspended(s, "postReceiptItem")
  /\ handlers' = [handlers EXCEPT ![s] = Respond(@, 200, JsonAll(@.awaited))]
  /\ UNCHANGED <<store, now, calls>>

(* --------------- POST /api/receipts/:receiptId/items -------------------- *)
\* Array.isArray(req.body) ? req.body : [req.body]
Items(body) == IF body.isArray THEN body.elems ELSE <<body.elems[1]>>

\* the handler up to its first await: the lookup of the receipt
PostItems(s, path, body) ==
  /\ handlers[s].pc = "idle"
  /\ handlers' = [handlers EXCEPT ![s] =
       [Request("postItems", path, body.elems, body.isArray) EXCEPT
          !.awaited = getReceiptById(_receipts, ParseInt(path))]]
  /\ UNCHANGED <<store, now, calls>>

\* The loop from item k on, with the items created so far: to the 201 after
\* the last item, to the 400 of the catch at an item that does not parse, or
\* to the await of the item's creation.
PostItemsLoop(s, k, created) ==
  LET h == handlers[s]
      items == Items(h.body)
      receiptId == ParseInt(h.path)
      shape == Omit(ReceiptItemSchema, ServerAssigned)
  IN IF k > Len(items)
     THEN /\ handlers' = [handlers EXCEPT ![s] =
               Respond([h EXCEPT !.createdItems = created], 201, JsonAll(created))]
          /\ UNCHANGED <<store, calls>>
     ELSE IF ~Valid(WithReceiptId(items[k], receiptId), shape)
     THEN /\ handlers' = [handlers EXCEPT ![s] =
               Respond([h EXCEPT !.createdItems = created, !.k = k], 400, <<>>)]
          /\ UNCHANGED <<store, calls>>
     ELSE /\ calls.createReceiptItem < MaxItemCreates
          /\ \E nano \in NanoIds :
               LET itemData == Parsed(WithReceiptId(items[k], receiptId), shape)
               IN /\ createReceiptItem(itemData, nano)
                  /\ handlers' = [handlers EXCEPT ![s] =
                       [h EXCEPT !.pc = "created", !.k = k, !.createdItems = created,
                                 !.awaited = <<NewRecord(itemData, nano, now)>>]]

\* A faulty variant, the result of the lookup is not checked
PostItemsLookedUpUnchecked(s) ==
  /\ Suspended(s, "postItems")
  /\ PostItemsLoop(s, 1, <<>>)
  /\ UNCHANGED now

\* after the lookup: 404 when there is no receipt, else into the loop
PostItemsLookedUp(s) ==
  /\ Suspended(s, "postItems")
  /\ IF handlers[s].awaited = <<>>
     THEN /\ handlers' = [handlers EXCEPT ![s] = Respond(@, 404, <<>>)]
          /\ UNCHANGED <<store, calls>>
     ELSE PostItemsLoop(s, 1, <<>>)
  /\ UNCHANGED now

\* after a creation: createdItems.push(createdItem), then the next item
PostItemsCreated(s) ==
  /\ handlers[s].kind = "postItems"
  /\ handlers[s].pc = "created"
  /\ PostItemsLoop(s, handlers[s].k + 1,
                   Push(handlers[s].createdItems, handlers[s].awaited[1]))
  /\ UNCHANGED now

(* --------------------- items of a receipt, deletion -------------------- *)
\* app.get('/api/receipts/:receiptId/items')
GetReceiptItems(s, path) ==
  /\ handlers[s].pc = "idle"
  /\ handlers' = [handlers EXCEPT ![s] =
       [Request("getReceiptItems", path, <<>>, FALSE) EXCEPT
          !.awaited = getReceiptItemsByReceiptId(_receiptItems, ParseInt(path))]]
  /\ UNCHANGED <<store, now, calls>>

GetReceiptItemsResume(s) ==
  /\ Suspended(s, "getReceiptItems")
  /\ handlers' = [handlers EXCEPT ![s] = Respond(@, 200, JsonAll(@.awaited))]
  /\ UNCHANGED <<store, now, calls>>

\* app.delete('/api/receipt-items/:id')
DeleteItem(s, path) ==
  /\ handlers[s].pc = "idle"
  /\ _receiptItems' = deleteReceiptItem(_receiptItems, ParseInt(path))
  /\ calls' = [calls EXCEPT !.deleteReceiptItem =
                 IF _receiptItems' # _receiptItems THEN @ + 1 ELSE @]
  /\ handlers' = [handlers EXCEPT ![s] = Request("deleteItem", path, <<>>, FALSE)]
  /\ UNCHANGED <<_users, _receipts, now>>

DeleteItemResume(s) ==
  /\ Suspended(s, "deleteItem")
  /\ handlers' = [handlers EXCEPT ![s] = Respond(@, 204, <<>>)]
  /\ UNCHANGED <<store, now, calls>>

(* ------------------------------ the rest ------------------------------- *)
\* the client has read the response: the slot takes the next request
Recycle(s) ==
  /\ handlers[s].pc = "done"
  /\ handlers' = [handlers EXCEPT ![s] = Idle]
  /\ UNCHANGED <<store, now, calls>>

\* time passes
Tick ==
  /\ now < MaxTime
  /\ now' = now + 1
  /\ UNCHANGED <<store, handlers, calls>>

\* the requests that read
Reads(S) ==
  \/ \E s \in S, path \in PathParams : GetReceipt(s, path)
  \/ \E s \in S : GetCreatedReceipt(s)
  \/ \E s \in S : GetReceiptResume(s)
  \/ \E s \in S, path \in PathParams : GetUser(s, path)
  \/ \E s \in S : GetUserResume(s)
  \/ \E s \in S, path \in PathParams : GetReceiptItems(s, path)
  \/ \E s \in S : GetReceiptItemsResume(s)

\* the requests that may change the store
Writes(S) ==
  \/ \E s \in S, body \in UserBodies : PostUser(s, body)
  \/ \E s \in S : PostUserResume(s)
  \/ \E s \in S, body \in ReceiptBodies : PostReceipt(s, body)
  \/ \E s \in S : PostReceiptResume(s)
  \/ \E s \in S, body \in ItemBodies : PostReceiptItem(s, body)
  \/ \E s \in S : PostReceiptItemResume(s)
  \/ \E s \in S, path \in PathParams, body \in BatchBodies : PostItems(s, path, body)
  \/ \E s \in S : PostItemsLookedUp(s)
  \/ \E s \in S : PostItemsCreated(s)
  \/ \E s \in S, path \in PathParams : DeleteItem(s, path)
  \/ \E s \in S : DeleteItemResume(s)
  \/ \E s \in S : Recycle(s)

\* Every route, the requests handled one after the other, while time passes.
Next == Reads(One) \/ Writes(One) \/ Tick

Spec == Init /\ [][Next]_vars

\* The routes that change the store, two requests in flight: their handlers
\* interleave at their await points.
NextConcurrent == Writes(Slots)

SpecConcurrent == Init /\ [][NextConcurrent]_vars

(* ============================== claims ================================= *)
\* the handler in slot s takes this step
Stepped(s) == handlers'[s] # handlers[s]

\* the handler of a route starts in slot s with this step
Starts(s, kind) ==
  /\ Stepped(s)
  /\ handlers'[s].kind = kind
  /\ handlers[s].pc \in {"idle", "done"}

\* no record of the array has this id (no id is NaN's)
NoneHasId(array, id) == \A i \in 1..Len(array) : ~(array[i].id = id /\ id # NaN)

\* the schema a creation route validates against
ItemShape == Omit(ReceiptItemSchema, ServerAssigned)

(* ------------------------------- C1 ------------------------------------ *)
\* C1: POST /api/receipts with a valid payload P answers 201 with a record R
\* that is P plus id and timestamps, and the GET /api/receipts/:id that
\* follows with R.id answers 200 with R, whatever id was generated.
C1_RoundTrip ==
  \A s \in Slots :
    LET h == handlers[s]
        shape == Omit(ReceiptSchema, ServerAssigned)
    IN /\ (h.kind = "postReceipt" /\ h.pc = "done" /\ Valid(h.body.elems[1], shape))
            => /\ h.status = 201
               /\ \A f \in DOMAIN shape : h.out[1][f] = h.body.elems[1].val[f]
       /\ (h.kind = "getReceipt" /\ h.pc = "done" /\ h.from # <<>>)
            => /\ h.status = 200
               /\ h.out = h.from

(* ------------------------------- C2 ------------------------------------ *)
\* C2: POST /api/receipts/:receiptId/items with a receiptId that no stored
\* receipt has answers 404 and creates no item, whatever the body: the lookup
\* finds nothing, and the handler then responds 404 without touching the items.
C2_Step ==
  \A s \in Slots :
    /\ (Starts(s, "postItems") /\ NoneHasId(_receipts, ParseInt(handlers'[s].path)))
         => /\ handlers'[s].awaited = <<>>
            /\ _receiptItems' = _receiptItems
    /\ (Suspended(s, "postItems") /\ handlers[s].awaited = <<>> /\ Stepped(s))
         => /\ handlers'[s].pc = "done"
            /\ handlers'[s].status = 404
            /\ handlers'[s].createdItems = <<>>
            /\ _receiptItems' = _receiptItems

C2_MissingReceipt == [][C2_Step]_vars

C2_Witness ==
  \E s \in Slots :
    /\ handlers[s].kind = "postItems"
    /\ handlers[s].pc = "done"
    /\ handlers[s].status = 404
    /\ Len(Items(handlers[s].body)) = 2
    /\ Valid(Items(handlers[s].body)[1], ItemShape)
    /\ _receipts # <<>>

(* ------------------------------- C3 ------------------------------------ *)
\* an item payload that is valid whatever receiptId it carries
ValidPayload(body) == Valid(body, Omit(ItemShape, {"receiptId"}))

\* C3: for an existing receipt r and an array of N valid item payloads the
\* route answers 201 with exactly N created items in payload order, each with
\* receiptId r whatever the payload says, and the handler appends exactly
\* those N items to the store, one per step.
C3_Done ==
  \A s \in Slots :
    LET h == handlers[s]
        items == Items(h.body)
        r == ParseInt(h.path)
    IN (h.kind = "postItems" /\ h.pc = "done" /\ h.status # 404
          /\ \A i \in 1..Len(items) : ValidPayload(items[i]))
         => /\ h.status = 201
            /\ Len(h.out) = Len(items)
            /\ h.out = JsonAll(h.createdItems)
            /\ \A i \in 1..Len(items) :
                 /\ h.out[i].receiptId = r
                 /\ h.out[i].name = items[i].val.name
                 /\ h.out[i].price = items[i].val.price
                 /\ h.out[i].quantity = items[i].val.quantity

C3_Step ==
  \A s \in Slots :
    LET h == handlers[s]
        g == handlers'[s]
    IN /\ (Starts(s, "postItems") /\ ~NoneHasId(_receipts, ParseInt(g.path)))
            => g.awaited # <<>>
       /\ (h.kind = "postItems" /\ h.pc \in {"await", "created"} /\ Stepped(s))
            => /\ g.createdItems =
                    IF h.pc = "created" THEN Append(h.createdItems, h.awaited[1])
                    ELSE <<>>
               /\ IF g.pc = "created"
                  THEN /\ _receiptItems' = Append(_receiptItems, g.awaited[1])
                       /\ g.k = Len(g.createdItems) + 1
                  ELSE _receiptItems' = _receiptItems

C3_Batch == []C3_Done /\ [][C3_Step]_vars

C3_Witness ==
  \E s \in Slots :
    LET h == handlers[s]
    IN /\ h.kind = "postItems"
       /\ h.pc = "done"
       /\ h.status = 201
       /\ h.body.isArray
       /\ Len(h.out) = 2
       /\ h.body.elems[1].val.receiptId # ParseInt(h.path)
       /\ h.out[1].receiptId = 1

(* ------------------------------- C4 ------------------------------------ *)
\* the id of a record as a client writes it in a path
PathOf(record) == ToPath(JsonNumber(record.id))

\* C4: DELETE /api/receipt-items/:id with the id of a stored item answers 204
\* and removes exactly one item of that id, the others kept in their order,
\* and the items of that item's receipt then hold no item of that id.
C4_Step ==
  \A s \in Slots :
    LET g == handlers'[s]
        holders == {i \in 1..Len(_receiptItems) : PathOf(_receiptItems[i]) = g.path}
    IN /\ (Starts(s, "deleteItem") /\ holders # {})
            => /\ \E i \in holders : _receiptItems' = Splice(_receiptItems, i)
               /\ \A i \in holders :
                    LET left == getReceiptItemsByReceiptId(_receiptItems',
                                                           _receiptItems[i].receiptId)
                    IN \A j \in 1..Len(left) : PathOf(left[j]) # g.path
       /\ (Suspended(s, "deleteItem") /\ Stepped(s)) => g.status = 204

C4_DeleteExisting == [][C4_Step]_vars

(* ------------------------------- C5 ------------------------------------ *)
\* C5: DELETE /api/receipt-items/:id with an id no stored item has answers
\* 204 and changes nothing, and the same DELETE issued again right after the
\* first leaves the store as the first left it.
C5_Step ==
  \A s \in Slots :
    LET g == handlers'[s]
        id == ParseInt(g.path)
    IN /\ Starts(s, "deleteItem")
            => /\ NoneHasId(_receiptItems, id) => store' = store
               /\ deleteReceiptItem(_receiptItems', id) = _receiptItems'
               /\ UNCHANGED <<_users, _receipts>>
       /\ (Suspended(s, "deleteItem") /\ Stepped(s)) => g.status = 204

C5_DeleteIdempotent == [][C5_Step]_vars

(* ------------------------------- C6 ------------------------------------ *)
\* C6: every stored item's receiptId is the id of a stored receipt.
C6_Referential ==
  \A i \in 1..Len(_receiptItems) :
    \E j \in 1..Len(_receipts) :
      StrictEq(_receipts[j].id, _receiptItems[i].receiptId)

(* ------------------------------- C7 ------------------------------------ *)
SingleKinds == {"postUser", "postReceipt", "postReceiptItem"}

ShapeOf(kind) ==
  CASE kind = "postUser" -> Omit(UserSchema, ServerAssigned)
    [] kind = "postReceipt" -> Omit(ReceiptSchema, ServerAssigned)
    [] kind = "postReceiptItem" -> Omit(ReceiptItemSchema, ServerAssigned)

SuccessOf(kind) == IF kind = "postReceipt" THEN 201 ELSE 200

\* after is before with one record at its end
AppendedOne(before, after) ==
  /\ Len(after) = Len(before) + 1
  /\ \A i \in 1..Len(before) : after[i] = before[i]

\* C7: on POST /api/users, /api/receipts and /api/receipt-items a body that
\* fails validation is answered 400 and nothing is stored; a record is
\* appended only by a request whose response is the route's success status.
C7_Done ==
  \A s \in Slots :
    LET h == handlers[s]
    IN (h.kind \in SingleKinds /\ h.pc = "done")
         => h.status = IF Valid(h.body.elems[1], ShapeOf(h.kind))
                       THEN SuccessOf(h.kind) ELSE 400

C7_Step ==
  \A s \in Slots :
    LET g == handlers'[s]
    IN (g.kind \in SingleKinds /\ Stepped(s))
         => IF Starts(s, g.kind) /\ Valid(g.body.elems[1], ShapeOf(g.kind))
            THEN /\ g.pc = "await"
                 /\ g.kind = "postUser"
                      => AppendedOne(_users, _users') /\ UNCHANGED <<_receipts, _receiptItems>>
                 /\ g.kind = "postReceipt"
                      => AppendedOne(_receipts, _receipts') /\ UNCHANGED <<_users, _receiptItems>>
                 /\ g.kind = "postReceiptItem"
                      => AppendedOne(_receiptItems, _receiptItems') /\ UNCHANGED <<_users, _receipts>>
            ELSE /\ store' = store
                 /\ g.pc = "done"

C7_InvalidStoresNothing == []C7_Done /\ [][C7_Step]_vars

C7_Witness ==
  \E s \in Slots, t \in Slots :
    /\ handlers[s].kind = "postReceiptItem"
    /\ handlers[s].pc = "done"
    /\ handlers[s].status = 400
    /\ handlers[t].kind = "postReceipt"
    /\ handlers[t].pc = "done"
    /\ handlers[t].status = 201

(* ------------------------------- C8 ------------------------------------ *)
\* C8: GET /api/receipts/:id for an id no stored receipt has (a path that is
\* no number included) answers 404, not 200 or 500, and changes nothing; so
\* does GET /api/users/:id for users.
C8_Step ==
  \A s \in Slots :
    LET h == handlers[s]
        g == handlers'[s]
    IN /\ Starts(s, "getReceipt")
            => /\ store' = store
               /\ NoneHasId(_receipts, ParseInt(g.path)) => g.awaited = <<>>
       /\ Starts(s, "getUser")
            => /\ store' = store
               /\ NoneHasId(_users, ParseInt(g.path)) => g.awaited = <<>>
       /\ ((Suspended(s, "getReceipt") \/ Suspended(s, "getUser")) /\ Stepped(s))
            => /\ store' = store
               /\ g.pc = "done"
               /\ g.status = IF h.awaited = <<>> THEN 404 ELSE 200

C8_NotFound == [][C8_Step]_vars

C8_Witness ==
  \E s \in Slots :
    /\ handlers[s].kind = "getReceipt"
    /\ handlers[s].pc = "done"
    /\ handlers[s].status = 404
    /\ ParseInt(handlers[s].path) = NaN
    /\ \E i \in 1..Len(_receipts) : _receipts[i].id = NaN

(* ------------------------------- C9 ------------------------------------ *)
\* after is before without one of its elements
RemovedOne(before, after) ==
  /\ Len(after) = Len(before) - 1
  /\ \E i \in 1..Len(before) :
       \A j \in 1..Len(after) : after[j] = IF j < i THEN before[j] ELSE before[j + 1]

\* C9: however the handlers interleave, a step changes the store only by
\* appending one record to one sequence or by removing one item; users and
\* receipts are never removed, reordered or changed, and each sequence holds
\* one record per create that took effect, less the items removed.
C9_Step ==
  store' # store =>
    \/ AppendedOne(_users, _users') /\ UNCHANGED <<_receipts, _receiptItems>>
    \/ AppendedOne(_receipts, _receipts') /\ UNCHANGED <<_users, _receiptItems>>
    \/ AppendedOne(_receiptItems, _receiptItems') /\ UNCHANGED <<_users, _receipts>>
    \/ RemovedOne(_receiptItems, _receiptItems') /\ UNCHANGED <<_users, _receipts>>

C9_Count ==
  /\ Len(_users) = calls.createUser
  /\ Len(_receipts) = calls.createReceipt
  /\ Len(_receiptItems) = calls.createReceiptItem - calls.deleteReceiptItem

C9_AppendOrRemove == []C9_Count /\ [][C9_Step]_vars

C9_Witness ==
  /\ \A s \in Slots : handlers[s].kind = "postItems" /\ handlers[s].pc = "created"
  /\ Len(_receiptItems) = 2
  /\ calls.createReceiptItem = 2

(* ------------------------------- C10 ----------------------------------- *)
\* C10: a POST /api/receipts/:receiptId/items answered 400 has created no item.
C10_AllOrNothing ==
  \A s \in Slots :
    (handlers[s].kind = "postItems" /\ handlers[s].pc = "done" /\ handlers[s].status = 400)
      => handlers[s].createdItems = <<>>

====
